---- MODULE Spec2Model ----
(***************************************************************************)
(* Overlay segment manager of src/src/46270.c: the stage accessors, the    *)
(* stage loader func_8009A8F0, the scene manager loop func_8009B40C and    *)
(* the loadSegment DMA macro.                                              *)
(***************************************************************************)
EXTENDS Integers, Sequences, FiniteSets, TLC

VARIABLES
    pc,           \* control point of the program: "main", a line of func_8009B40C, or a spin
    D_800B0578,   \* s32 written by func_8009A8C0 (stage mode)
    D_800AC00C,   \* s32 written by func_8009A8D8 (stage flag)
    resident,     \* names of the overlays and segments whose content is in RAM
    window,       \* overlay name -> RAM window it is linked to (link-time data)
    lastCall,     \* the most recent call made from "main" and what it issued
    nCalls,       \* number of func_8009A8F0 calls made so far
    i,            \* local i of func_8009B40C
    status,       \* value returned by the last func_801DD010 call
    events,       \* loads and step calls issued by func_8009B40C, in order
    rom,          \* SpecDma: ROM bytes
    mem,          \* SpecDma: RAM bytes
    lastDma       \* SpecDma: the last descriptor loaded and the transfer made for it

vars == <<pc, D_800B0578, D_800AC00C, resident, window, lastCall, nCalls,
          i, status, events, rom, mem, lastDma>>

stageVars == <<pc, D_800B0578, D_800AC00C, resident, window, lastCall, nCalls,
               i, status, events>>
dmaVars == <<rom, mem, lastDma>>

----------------------------------------------------------------------------
(* Bounds *)
MaxVal == 1            \* accessor arguments range over 0..MaxVal
MaxStageArg == 7       \* func_8009A8F0 arguments range over -1..MaxStageArg
MaxStageCalls == 2     \* func_8009A8F0 calls per behaviour
RomSize == 2           \* SpecDma: ROM offsets 0..RomSize-1
RamSize == 3           \* SpecDma: RAM addresses 0..RamSize-1
MaxByte == 1           \* SpecDma: byte values 0..MaxByte

Values == 0..MaxVal
StageArgs == (-1)..MaxStageArg

----------------------------------------------------------------------------
(* Names of src/src/46270.c *)

\* #define stageN D_800ABxxx and the extern Overlay declarations
StageOverlays == {"stage0", "stage1", "stage2", "stage3", "stage4", "stage5", "stage6"}
ManagerOverlays == {"D_800ABDEC", "D_800ABBD0"}
Overlays == StageOverlays \cup ManagerOverlays

\* SEGMENT(name) declarations
Segments == {"magikarp1", "pikachu1", "zubat1", "bulbasaur1",
             "stage0_extra", "stage1_extra", "stage4_extra", "stage3_extra",
             "stage2_extra", "stage5_extra", "stage6_extra",
             "magikarp2", "pikachu2", "zubat2", "bulbasaur2"}

\* segmentStart(name) is the symbol name##_VRAM: one window per segment symbol
segmentStart(name) == <<name, "VRAM">>

\* The window an Overlay descriptor binds to is data outside this file. The
\* two manager overlays are kept resident together, so they have windows of
\* their own; the candidate layouts differ in the stage overlays: each in
\* its own window, or all of them superseding one another in one window.
OverlayLayouts ==
    { [o \in Overlays |-> <<o, "ovl">>],
      [o \in Overlays |-> IF o \in StageOverlays THEN <<"stage", "ovl">> ELSE <<o, "ovl">>] }

WindowOf(name) == IF name \in Overlays THEN window[name] ELSE segmentStart(name)

----------------------------------------------------------------------------
(* Loads *)

OvlLoad(o) == [kind |-> "load_overlay", name |-> o]
DmaLoad(s) == [kind |-> "dma_rom_read", name |-> s]

\* a load that leaves the prior occupant of the window in place
load_overlay_noevict(res, o) == res \cup {o}

\* load_overlay(&ovl): binds the overlay into its window, displacing the
\* prior occupant
load_overlay(res, o) == {r \in res : WindowOf(r) # WindowOf(o)} \cup {o}

\* a segment load that wipes the segments loaded before it
loadSegment_clears(res, name) == {r \in res : r \in Overlays} \cup {name}

\* loadSegment(name): dma_rom_read(&name_ROM_START, &name_VRAM, size)
loadSegment(res, name) == {r \in res : WindowOf(r) # segmentStart(name)} \cup {name}

ApplyLoad(res, l) ==
    IF l.kind = "load_overlay" THEN load_overlay(res, l.name) ELSE loadSegment(res, l.name)

RECURSIVE ApplyLoads(_, _)
ApplyLoads(res, ls) ==
    IF ls = <<>> THEN res ELSE ApplyLoads(ApplyLoad(res, Head(ls)), Tail(ls))

----------------------------------------------------------------------------
(* Accessors, lines 52-66 *)

\* a setter that stores into the other field
func_8009A8C0_wrongField(arg0) ==
    /\ D_800AC00C' = arg0
    /\ UNCHANGED D_800B0578

\* void func_8009A8C0(s32 arg0) { D_800B0578 = arg0; }
func_8009A8C0(arg0) ==
    /\ D_800B0578' = arg0
    /\ UNCHANGED D_800AC00C

\* s32 func_8009A8CC(void) { return D_800B0578; }
func_8009A8CC == D_800B0578

\* void func_8009A8D8(s32 arg0) { D_800AC00C = arg0; }
func_8009A8D8(arg0) ==
    /\ D_800AC00C' = arg0
    /\ UNCHANGED D_800B0578

\* s32 func_8009A8E4(void) { return D_800AC00C; }
func_8009A8E4 == D_800AC00C

NoLoads == <<>>

setStageMode ==
    /\ pc = "main"
    /\ \E arg0 \in Values :
        /\ func_8009A8C0(arg0)
        /\ lastCall' = [op |-> "func_8009A8C0", arg |-> arg0, loads |-> NoLoads,
                        result |-> "returned"]
    /\ UNCHANGED <<pc, resident, window, nCalls, i, status, events, dmaVars>>

setStageFlag ==
    /\ pc = "main"
    /\ \E arg0 \in Values :
        /\ func_8009A8D8(arg0)
        /\ lastCall' = [op |-> "func_8009A8D8", arg |-> arg0, loads |-> NoLoads,
                        result |-> "returned"]
    /\ UNCHANGED <<pc, resident, window, nCalls, i, status, events, dmaVars>>

----------------------------------------------------------------------------
(* Stage loader, lines 68-127 *)

\* a case of the switch that runs to its break and reaches the return of line 126
Returns(loads) == [loads |-> loads, result |-> "returned", pc |-> "main"]

\* case 0: ... break;
case_0 ==
    Returns(<<OvlLoad("stage0"), DmaLoad("stage0_extra"),
              DmaLoad("magikarp1"), DmaLoad("magikarp2"),
              DmaLoad("pikachu1"), DmaLoad("pikachu2")>>)

case_1 ==
    Returns(<<OvlLoad("stage1"), DmaLoad("stage1_extra"),
              DmaLoad("magikarp1"), DmaLoad("magikarp2"),
              DmaLoad("pikachu1"), DmaLoad("pikachu2"),
              DmaLoad("zubat1"), DmaLoad("zubat2")>>)

case_4 ==
    Returns(<<OvlLoad("stage4"), DmaLoad("stage4_extra"),
              DmaLoad("bulbasaur1"), DmaLoad("bulbasaur2"),
              DmaLoad("magikarp1"), DmaLoad("magikarp2"),
              DmaLoad("pikachu1"), DmaLoad("pikachu2"),
              DmaLoad("zubat1"), DmaLoad("zubat2")>>)

\* a case 3 that loads the shared segments before the bulbasaur pair
case_3_reordered ==
    Returns(<<OvlLoad("stage3"), DmaLoad("stage3_extra"),
              DmaLoad("magikarp1"), DmaLoad("magikarp2"),
              DmaLoad("pikachu1"), DmaLoad("pikachu2"),
              DmaLoad("bulbasaur1"), DmaLoad("bulbasaur2")>>)

case_3 ==
    Returns(<<OvlLoad("stage3"), DmaLoad("stage3_extra"),
              DmaLoad("bulbasaur1"), DmaLoad("bulbasaur2"),
              DmaLoad("magikarp1"), DmaLoad("magikarp2"),
              DmaLoad("pikachu1"), DmaLoad("pikachu2")>>)

case_2 ==
    Returns(<<OvlLoad("stage2"), DmaLoad("stage2_extra"),
              DmaLoad("magikarp1"), DmaLoad("magikarp2")>>)

case_5 ==
    Returns(<<OvlLoad("stage5"), DmaLoad("stage5_extra"),
              DmaLoad("magikarp1"), DmaLoad("magikarp2")>>)

\* case 6 has no break: it runs off the end of the switch
case_6 ==
    Returns(<<OvlLoad("stage6"), DmaLoad("stage6_extra")>>)

\* a default label that parks the caller the way func_8009B40C does
default_spins == [loads |-> NoLoads, result |-> "halted", pc |-> "HALTED_ERROR"]

\* the switch has no default label: any other param_1 skips the switch body
\* and reaches the return of line 126
no_default == Returns(NoLoads)

\* switch (param_1)
func_8009A8F0(param_1) ==
    CASE param_1 = 0 -> case_0
      [] param_1 = 1 -> case_1
      [] param_1 = 4 -> case_4
      [] param_1 = 3 -> case_3
      [] param_1 = 2 -> case_2
      [] param_1 = 5 -> case_5
      [] param_1 = 6 -> case_6
      [] OTHER -> no_default

\* a stage loader that also records its index as the stage mode
selectStage_storesIndex ==
    /\ pc = "main"
    /\ nCalls < MaxStageCalls
    /\ \E param_1 \in StageArgs :
        LET r == func_8009A8F0(param_1) IN
        /\ resident' = ApplyLoads(resident, r.loads)
        /\ lastCall' = [op |-> "func_8009A8F0", arg |-> param_1, loads |-> r.loads,
                        result |-> r.result]
        /\ pc' = r.pc
        /\ D_800B0578' = param_1
    /\ nCalls' = nCalls + 1
    /\ UNCHANGED <<D_800AC00C, window, i, status, events, dmaVars>>

selectStage ==
    /\ pc = "main"
    /\ nCalls < MaxStageCalls
    /\ \E param_1 \in StageArgs :
        LET r == func_8009A8F0(param_1) IN
        /\ resident' = ApplyLoads(resident, r.loads)
        /\ lastCall' = [op |-> "func_8009A8F0", arg |-> param_1, loads |-> r.loads,
                        result |-> r.result]
        /\ pc' = r.pc
    /\ nCalls' = nCalls + 1
    /\ UNCHANGED <<D_800B0578, D_800AC00C, window, i, status, events, dmaVars>>

----------------------------------------------------------------------------
(* Scene manager loop, lines 133-147 *)

StepStatuses == {0, 1, -1}       \* func_801DD010 is opaque: zero or non-zero

LoadEvent(o) == [kind |-> "load_overlay", ovl |-> o, n |-> -1]
StepEvent(n) == [kind |-> "step", ovl |-> "", n |-> n]

\* the call of func_8009B40C: s32 i = 0; for (i = 0;;)
StartSceneManager ==
    /\ pc = "main"
    /\ i' = 0
    /\ pc' = "L137"
    /\ UNCHANGED <<D_800B0578, D_800AC00C, resident, window, lastCall, nCalls,
                   status, events, dmaVars>>

\* a loop that loads D_800ABBD0 first
LoadManagerA_swapped ==
    /\ pc = "L137"
    /\ resident' = load_overlay(resident, "D_800ABBD0")
    /\ events' = Append(events, LoadEvent("D_800ABBD0"))
    /\ pc' = "L138"
    /\ UNCHANGED <<D_800B0578, D_800AC00C, window, lastCall, nCalls, i, status, dmaVars>>

\* load_overlay(&D_800ABDEC);
LoadManagerA ==
    /\ pc = "L137"
    /\ resident' = load_overlay(resident, "D_800ABDEC")
    /\ events' = Append(events, LoadEvent("D_800ABDEC"))
    /\ pc' = "L138"
    /\ UNCHANGED <<D_800B0578, D_800AC00C, window, lastCall, nCalls, i, status, dmaVars>>

\* load_overlay(&D_800ABBD0);
LoadManagerB ==
    /\ pc = "L138"
    /\ resident' = load_overlay(resident, "D_800ABBD0")
    /\ events' = Append(events, LoadEvent("D_800ABBD0"))
    /\ pc' = "L139"
    /\ UNCHANGED <<D_800B0578, D_800AC00C, window, lastCall, nCalls, i, status, dmaVars>>

\* func_801DD010(i): the opaque step returns some status
CallStep ==
    /\ pc = "L139"
    /\ \E st \in StepStatuses : status' = st
    /\ events' = Append(events, StepEvent(i))
    /\ pc' = "L139_test"
    /\ UNCHANGED <<D_800B0578, D_800AC00C, resident, window, lastCall, nCalls, i, dmaVars>>

\* a loop whose bound is 0x10
AfterStep_limit16(st, n) ==
    IF st # 0 THEN [i |-> n, pc |-> "HALTED_ERROR"]
    ELSE IF n + 1 = 16 THEN [i |-> n + 1, pc |-> "HALTED_LIMIT"]
    ELSE [i |-> n + 1, pc |-> "L137"]

\* a loop that advances the counter before it tests the status
AfterStep_incFirst(st, n) ==
    IF st # 0 THEN [i |-> n + 1, pc |-> "HALTED_ERROR"]
    ELSE IF n + 1 = 17 THEN [i |-> n + 1, pc |-> "HALTED_LIMIT"]
    ELSE [i |-> n + 1, pc |-> "L137"]

\* a loop that returns to its caller at the bound
AfterStep_returns(st, n) ==
    IF st # 0 THEN [i |-> n, pc |-> "HALTED_ERROR"]
    ELSE IF n + 1 = 17 THEN [i |-> n + 1, pc |-> "main"]
    ELSE [i |-> n + 1, pc |-> "L137"]

\* a loop whose bound is 0x12
AfterStep_limit18(st, n) ==
    IF st # 0 THEN [i |-> n, pc |-> "HALTED_ERROR"]
    ELSE IF n + 1 = 18 THEN [i |-> n + 1, pc |-> "HALTED_LIMIT"]
    ELSE [i |-> n + 1, pc |-> "L137"]

\* where control goes after the step returned st with the counter at n:
\* if (st != 0) while (TRUE);  i++;  if (i == 0x11) while (TRUE);
AfterStep(st, n) ==
    IF st # 0 THEN [i |-> n, pc |-> "HALTED_ERROR"]
    ELSE IF n + 1 = 17 THEN [i |-> n + 1, pc |-> "HALTED_LIMIT"]
    ELSE [i |-> n + 1, pc |-> "L137"]

TestStatus ==
    /\ pc = "L139_test"
    /\ i' = AfterStep(status, i).i
    /\ pc' = AfterStep(status, i).pc
    /\ UNCHANGED <<D_800B0578, D_800AC00C, resident, window, lastCall, nCalls,
                   status, events, dmaVars>>

Halted == {"HALTED_ERROR", "HALTED_LIMIT"}

----------------------------------------------------------------------------
Init ==
    /\ pc = "main"
    /\ D_800B0578 \in Values
    /\ D_800AC00C \in Values
    /\ resident = {}
    /\ window \in OverlayLayouts
    /\ lastCall = [op |-> "none", arg |-> 0, loads |-> NoLoads, result |-> "returned"]
    /\ nCalls = 0
    /\ i = 0
    /\ status = 0
    /\ events = <<>>
    /\ rom = <<>>
    /\ mem = <<>>
    /\ lastDma = <<>>

Next ==
    \/ setStageMode
    \/ setStageFlag
    \/ selectStage
    \/ StartSceneManager
    \/ LoadManagerA
    \/ LoadManagerB
    \/ CallStep
    \/ TestStatus

Spec == Init /\ [][Next]_vars

\* The loop on its own: the program goes to the scene manager without a
\* stage load before it. The loop never waits: each of its steps is taken
\* once it is enabled.
Loop == LoadManagerA \/ LoadManagerB \/ CallStep \/ TestStatus

NextLoop ==
    \/ setStageMode
    \/ setStageFlag
    \/ StartSceneManager
    \/ LoadManagerA
    \/ LoadManagerB
    \/ CallStep
    \/ TestStatus

FairSpec == Init /\ [][NextLoop]_vars /\ WF_vars(Loop)

----------------------------------------------------------------------------
(* The DMA load at byte level: the loadSegment macro, lines 11-13 *)

Bytes == 0..MaxByte

\* a SEGMENT(name): its name_ROM_START, name_ROM_END and name_VRAM symbols,
\* with the ROM range inside the ROM and the window inside the RAM
SegmentDescriptors ==
    { d \in [romStart : 0..RomSize, romEnd : 0..RomSize, ramDestination : 0..RamSize] :
        /\ d.romStart <= d.romEnd
        /\ d.ramDestination + (d.romEnd - d.romStart) <= RamSize }

RECURSIVE CopyBytes(_, _, _, _)
CopyBytes(m, src, dest, n) ==
    IF n <= 0 THEN m
    ELSE CopyBytes([m EXCEPT ![dest] = rom[src]], src + 1, dest + 1, n - 1)

\* void dma_rom_read(void* src, void* dest, size_t size): blocking copy of
\* size bytes of ROM at src into RAM at dest
dma_rom_read(m, src, dest, size) ==
    [mem |-> CopyBytes(m, src, dest, size), src |-> src, dest |-> dest,
     copied |-> IF size > 0 THEN size ELSE 0]

\* a macro whose size is one byte short of the ROM range
loadSegment_short(m, d) ==
    dma_rom_read(m, d.romStart, d.ramDestination, d.romEnd - d.romStart - 1)

\* dma_rom_read(&name_ROM_START, &name_VRAM, name_ROM_END - name_ROM_START)
loadSegmentBytes(m, d) ==
    dma_rom_read(m, d.romStart, d.ramDestination, d.romEnd - d.romStart)

DmaLoadSegment ==
    /\ pc = "dma"
    /\ \E d \in SegmentDescriptors :
        LET r == loadSegmentBytes(mem, d) IN
        /\ mem' = r.mem
        /\ lastDma' = <<[d |-> d, src |-> r.src, dest |-> r.dest, copied |-> r.copied]>>
    /\ UNCHANGED <<rom, stageVars>>

InitDma ==
    /\ pc = "dma"
    /\ D_800B0578 = 0
    /\ D_800AC00C = 0
    /\ resident = {}
    /\ window \in {[o \in Overlays |-> <<o, "ovl">>]}
    /\ lastCall = [op |-> "none", arg |-> 0, loads |-> NoLoads, result |-> "returned"]
    /\ nCalls = 0
    /\ i = 0
    /\ status = 0
    /\ events = <<>>
    /\ rom \in [0..(RomSize - 1) -> Bytes]
    /\ mem \in [0..(RamSize - 1) -> Bytes]
    /\ lastDma = <<>>

NextDma == DmaLoadSegment

SpecDma == InitDma /\ [][NextDma]_vars

----------------------------------------------------------------------------
(* Properties *)

Last(sq) == sq[Len(sq)]

\* the arguments of the step calls made so far, in order
RECURSIVE StepArgs(_)
StepArgs(ev) ==
    IF ev = <<>> THEN <<>>
    ELSE IF Head(ev).kind = "step" THEN <<Head(ev).n>> \o StepArgs(Tail(ev))
    ELSE StepArgs(Tail(ev))

NumSteps == Cardinality({j \in 1..Len(events) : events[j].kind = "step"})
NumManagerLoads == Cardinality({j \in 1..Len(events) : events[j].kind = "load_overlay"})

\* C1: a call of selectStage(s), s in 0..6, issues exactly the loads of the
\* stage table: the overlay of s, then stage<s>_extra, then the shared
\* segments of s in table order.
C1_StageLoadOrder ==
    LET table ==
            [s \in 0..6 |->
                CASE s = 0 -> <<"stage0", "stage0_extra",
                                <<"magikarp1", "magikarp2", "pikachu1", "pikachu2">> >>
                  [] s = 1 -> <<"stage1", "stage1_extra",
                                <<"magikarp1", "magikarp2", "pikachu1", "pikachu2",
                                  "zubat1", "zubat2">> >>
                  [] s = 2 -> <<"stage2", "stage2_extra", <<"magikarp1", "magikarp2">> >>
                  [] s = 3 -> <<"stage3", "stage3_extra",
                                <<"bulbasaur1", "bulbasaur2", "magikarp1", "magikarp2",
                                  "pikachu1", "pikachu2">> >>
                  [] s = 4 -> <<"stage4", "stage4_extra",
                                <<"bulbasaur1", "bulbasaur2", "magikarp1", "magikarp2",
                                  "pikachu1", "pikachu2", "zubat1", "zubat2">> >>
                  [] s = 5 -> <<"stage5", "stage5_extra", <<"magikarp1", "magikarp2">> >>
                  [] s = 6 -> <<"stage6", "stage6_extra", <<>> >>]
        expected(s) ==
            <<[kind |-> "load_overlay", name |-> table[s][1]],
              [kind |-> "dma_rom_read", name |-> table[s][2]]>>
            \o [k \in 1..Len(table[s][3]) |->
                    [kind |-> "dma_rom_read", name |-> table[s][3][k]]]
    IN  (lastCall.op = "func_8009A8F0" /\ lastCall.arg \in 0..6)
            => lastCall.loads = expected(lastCall.arg)

C1_Witness ==
    /\ lastCall.op = "func_8009A8F0"
    /\ lastCall.arg = 3
    /\ Len(lastCall.loads) = 8
    /\ "bulbasaur2" \in resident

\* C2: without a step failure the loop halts in HALTED_LIMIT after exactly
\* 17 iterations: 17 step calls with the arguments 0, 1, ..., 16 in this
\* order, and the counter is 17.
C2_LimitAfter17 ==
    /\ pc = "HALTED_LIMIT" =>
            /\ i = 17
            /\ StepArgs(events) = [k \in 1..17 |-> k - 1]
            /\ NumManagerLoads = 34
    /\ (pc \notin {"main", "HALTED_ERROR", "HALTED_LIMIT"} /\ NumSteps >= 17) =>
            (pc = "L139_test" /\ NumSteps = 17)

C2_Witness == pc = "HALTED_LIMIT" /\ Len(events) = 51 /\ status = 0

\* C3: a step failure at iteration k < 17 halts the loop in HALTED_ERROR at
\* iteration k, with k+1 step calls and 2*(k+1) manager-overlay loads made,
\* and nothing is loaded or stepped afterwards.
C3_ErrorHalt ==
    /\ [](pc = "HALTED_ERROR" =>
            /\ i < 17
            /\ status # 0
            /\ NumSteps = i + 1
            /\ Last(events) = StepEvent(i)
            /\ NumManagerLoads = 2 * (i + 1))
    /\ [][(pc = "L139_test" /\ status # 0) => (pc' = "HALTED_ERROR" /\ i' = i)]_vars
    /\ [][pc = "HALTED_ERROR" =>
            (pc' = pc /\ events' = events /\ resident' = resident)]_vars

C3_Witness == pc = "HALTED_ERROR" /\ i = 5 /\ NumSteps = 6 /\ NumManagerLoads = 12

\* C5: a getter returns the argument of the last call of its setter, and a
\* setter call leaves the other field as it was.
C5_AccessorRoundTrip ==
    /\ [](lastCall.op = "func_8009A8C0" => func_8009A8CC = lastCall.arg)
    /\ [](lastCall.op = "func_8009A8D8" => func_8009A8E4 = lastCall.arg)
    /\ [][lastCall'.op = "func_8009A8C0" => func_8009A8E4' = func_8009A8E4]_vars
    /\ [][lastCall'.op = "func_8009A8D8" => func_8009A8CC' = func_8009A8CC]_vars

C5_Witness ==
    /\ lastCall.op = "func_8009A8C0"
    /\ lastCall.arg = 1
    /\ D_800B0578 = 1
    /\ D_800AC00C = 0

\* C7: a DMA load of descriptor d copies exactly d.romEnd - d.romStart
\* bytes from ROM offset d.romStart to d.ramDestination, and the window
\* then reads back as the ROM range.
C7_DmaRoundTrip ==
    lastDma # <<>> =>
        LET t == lastDma[1]
            size == t.d.romEnd - t.d.romStart
        IN  /\ t.copied = size
            /\ t.src = t.d.romStart
            /\ t.dest = t.d.ramDestination
            /\ \A k \in 0..(size - 1) : mem[t.d.ramDestination + k] = rom[t.d.romStart + k]

C7_Witness ==
    /\ lastDma # <<>>
    /\ lastDma[1].d.romStart = 0
    /\ lastDma[1].d.romEnd = 2
    /\ lastDma[1].d.ramDestination = 1
    /\ lastDma[1].copied = 2
    /\ rom[0] # rom[1]
    /\ mem[1] = rom[0] /\ mem[2] = rom[1]

OutOfTable(arg) == arg \notin 0..6

\* C4: selectStage called with an index outside 0..6 yields a reported error.
C4_OutOfTableReportsError ==
    (lastCall.op = "func_8009A8F0" /\ OutOfTable(lastCall.arg)) => lastCall.result = "error"

\* C6: each RAM window holds at most one overlay or segment, and a load into
\* an occupied window leaves only the newly loaded content resident there.
C6_ExclusiveWindows ==
    /\ Cardinality({WindowOf(r) : r \in resident}) = Cardinality(resident)
    /\ (events # <<>> /\ Last(events).kind = "load_overlay") =>
            /\ Last(events).ovl \in resident
            /\ \A r \in resident \ {Last(events).ovl} :
                    WindowOf(r) # WindowOf(Last(events).ovl)
    /\ (pc = "main" /\ lastCall.op = "func_8009A8F0") =>
            \A k \in 1..Len(lastCall.loads) : lastCall.loads[k].name \in resident

C6_Witness ==
    /\ pc = "main"
    /\ window["stage5"] = window["stage2"]
    /\ lastCall.op = "func_8009A8F0" /\ lastCall.arg = 2
    /\ "stage2" \in resident
    /\ "stage5" \notin resident
    /\ "stage5_extra" \in resident

\* C8: the events of the loop come in rounds of three: the load of
\* D_800ABDEC, the load of D_800ABBD0, then the step call with the counter;
\* nothing is loaded between a step call and the test of its status.
C8_ReloadBeforeStep ==
    /\ \A j \in 1..Len(events) :
            events[j] = CASE j % 3 = 1 -> LoadEvent("D_800ABDEC")
                          [] j % 3 = 2 -> LoadEvent("D_800ABBD0")
                          [] OTHER -> StepEvent((j \div 3) - 1)
    /\ pc = "L139_test" => (events # <<>> /\ Last(events).kind = "step")
    /\ pc = "L139" => Len(events) % 3 = 2

C8_Witness ==
    /\ pc = "L139_test"
    /\ Len(events) = 6
    /\ events[4].ovl = "D_800ABDEC"
    /\ events[5].ovl = "D_800ABBD0"
    /\ events[6] = StepEvent(1)

C10_LoopHalts ==
    /\ (pc = "L137" /\ i = 0) ~> (pc \in Halted)
    /\ [](NumSteps <= 17 /\ NumManagerLoads <= 34)
    /\ [][(pc \in Halted) => UNCHANGED vars]_vars
    /\ [][pc # "main" => pc' # "main"]_vars

C10_Witness == pc \in Halted /\ NumSteps = 17 /\ NumManagerLoads = 34 /\ status # 0

\* C11: the counter stays in 0..17, a successful step advances it by
\* exactly 1 and a failing step leaves it, the step is only called with an
\* argument in 0..16, and the counter is 17 only in HALTED_LIMIT.
C11_CounterRange ==
    /\ [](i \in 0..17)
    /\ [](i = 17 => pc = "HALTED_LIMIT")
    /\ [](\A j \in 1..Len(events) : events[j].kind = "step" => events[j].n \in 0..16)
    /\ [][pc = "L139_test" => i' = (IF status = 0 THEN i + 1 ELSE i)]_vars
    /\ [][pc \notin {"main", "L139_test"} => i' = i]_vars

C11_Witness ==
    /\ pc = "L137"
    /\ i = 16
    /\ status = 0
    /\ Len(events) = 48
    /\ events[48] = StepEvent(15)

\* C12: whenever the step is invoked, D_800ABDEC and D_800ABBD0 are both
\* resident, whatever was loaded before the iteration.
C12_ManagersResident ==
    pc \in {"L139", "L139_test"} => {"D_800ABDEC", "D_800ABBD0"} \subseteq resident

C12_Witness ==
    /\ pc = "L139_test"
    /\ i = 1
    /\ lastCall.op = "func_8009A8F0" /\ lastCall.arg = 4
    /\ "stage4" \in resident
    /\ "D_800ABDEC" \in resident
    /\ "D_800ABBD0" \in resident

\* C13: a call of selectStage changes only the windows its loads target:
\* every resident of another window stays, every new resident is one of the
\* loads; for an index outside 0..6 nothing is loaded, no window changes and
\* the call returns.
C13_StageFrame ==
    [][nCalls' = nCalls + 1 =>
        LET names == {lastCall'.loads[k].name : k \in 1..Len(lastCall'.loads)}
            targets == {WindowOf(nm) : nm \in names}
        IN  /\ \A r \in resident : WindowOf(r) \notin targets => r \in resident'
            /\ resident' \ resident \subseteq names
            /\ names \subseteq resident'
            /\ OutOfTable(lastCall'.arg) =>
                    (lastCall'.loads = <<>> /\ resident' = resident
                     /\ pc' = "main" /\ lastCall'.result = "returned")]_vars

C13_Witness ==
    /\ pc = "main"
    /\ nCalls = 2
    /\ lastCall.op = "func_8009A8F0" /\ lastCall.arg = 2
    /\ "stage2_extra" \in resident
    /\ "zubat1" \in resident
    /\ "stage1_extra" \in resident

\* C14: D_800B0578 and D_800AC00C change only in a call of their own
\* setter, to its argument; no selectStage call and no step of the scene
\* manager loop changes either.
C14_FieldsOnlySetBySetters ==
    /\ [][D_800B0578' # D_800B0578 =>
            (lastCall'.op = "func_8009A8C0" /\ lastCall'.arg = D_800B0578')]_vars
    /\ [][D_800AC00C' # D_800AC00C =>
            (lastCall'.op = "func_8009A8D8" /\ lastCall'.arg = D_800AC00C')]_vars
    /\ [][(nCalls' # nCalls \/ pc # "main") =>
            (D_800B0578' = D_800B0578 /\ D_800AC00C' = D_800AC00C)]_vars

C14_Witness ==
    /\ pc = "HALTED_ERROR"
    /\ lastCall.op = "func_8009A8F0" /\ lastCall.arg = 3
    /\ nCalls = 2
    /\ func_8009A8CC = 1
    /\ func_8009A8E4 = 0

====
